---- MODULE Spec2Model ----
(***************************************************************************)
(* The parameter registry of 05_sdss_pipeline/global_params.py: a Python   *)
(* module whose body binds a set of names once, when it is imported (or    *)
(* re-executed by a reload), and whose consumers read those names.         *)
(*                                                                         *)
(* Python floats are IEEE-754 binary64 numbers.  They are modelled bit for *)
(* bit: a float is a sign, a 53-bit significand and an exponent, and every *)
(* arithmetic operation rounds its exact result to nearest, ties to even.  *)
(* Significands do not fit the model checker's integers, so they are kept  *)
(* as little-endian sequences of 15-bit limbs.                             *)
(***************************************************************************)
EXTENDS Integers, Sequences, FiniteSets, TLC

(***************************************************************************)
(* Natural numbers of any size: little-endian limbs, no leading zero limb. *)
(***************************************************************************)
LimbBits == 15
Base == 2^15

\* F(x), F(x, y): the operator applied to the values of its arguments, each
\* evaluated once.
With(x, F(_)) == CHOOSE r \in {F(v) : v \in {x}} : TRUE
With2(x, y, F(_, _)) == CHOOSE r \in {F(v, w) : v \in {x}, w \in {y}} : TRUE

RECURSIVE Strip(_)
Strip(a) ==
    IF a = <<>> THEN <<>>
    ELSE IF a[Len(a)] = 0 THEN Strip(SubSeq(a, 1, Len(a) - 1))
    ELSE a

RECURSIVE FromNat(_)
FromNat(n) == IF n = 0 THEN <<>> ELSE <<n % Base>> \o FromNat(n \div Base)

Rest(a) == IF a = <<>> THEN <<>> ELSE Tail(a)
Low(a) == IF a = <<>> THEN 0 ELSE Head(a)

RECURSIVE AddC(_, _, _)
AddC(a, b, c) ==
    IF a = <<>> /\ b = <<>> THEN (IF c = 0 THEN <<>> ELSE <<c>>)
    ELSE LET s == Low(a) + Low(b) + c
         IN  <<s % Base>> \o AddC(Rest(a), Rest(b), s \div Base)

BAdd(a, b) == With2(a, b, LAMBDA x, y : AddC(x, y, 0))

RECURSIVE SubB(_, _, _)
SubB(a, b, br) ==
    IF a = <<>> THEN <<>>
    ELSE LET d == Head(a) - Low(b) - br
         IN  <<d % Base>> \o SubB(Tail(a), Rest(b), IF d < 0 THEN 1 ELSE 0)

\* a - b, for a >= b
BSub(a, b) == With2(a, b, LAMBDA x, y : Strip(SubB(x, y, 0)))

RECURSIVE CmpFrom(_, _, _)
CmpFrom(a, b, i) ==
    IF i = 0 THEN 0
    ELSE IF a[i] < b[i] THEN -1
    ELSE IF a[i] > b[i] THEN 1
    ELSE CmpFrom(a, b, i - 1)

\* -1, 0 or 1 as a < b, a = b or a > b
BCmp(a, b) ==
    With2(a, b, LAMBDA x, y :
        IF Len(x) < Len(y) THEN -1
        ELSE IF Len(x) > Len(y) THEN 1
        ELSE CmpFrom(x, y, Len(x)))

RECURSIVE MulC(_, _, _)
MulC(a, k, c) ==
    IF a = <<>> THEN (IF c = 0 THEN <<>> ELSE <<c>>)
    ELSE LET p == Head(a) * k + c
         IN  <<p % Base>> \o MulC(Tail(a), k, p \div Base)

\* a * k, for 0 <= k < Base
BMulSmall(a, k) == With2(a, k, LAMBDA x, y : Strip(MulC(x, y, 0)))

RECURSIVE BMul(_, _)
BMul(a, b) ==
    IF a = <<>> \/ b = <<>> THEN <<>>
    ELSE BAdd(BMulSmall(a, Head(b)), Strip(<<0>> \o BMul(a, Tail(b))))

RECURSIVE DivR(_, _)
DivR(a, k) ==
    IF a = <<>> THEN [q |-> <<>>, r |-> 0]
    ELSE With(DivR(Tail(a), k), LAMBDA hi :
             LET cur == hi.r * Base + Head(a)
             IN  [q |-> <<cur \div k>> \o hi.q, r |-> cur % k])

\* quotient and remainder of a by k, for 0 < k < Base
BDivSmall(a, k) ==
    With(DivR(a, k), LAMBDA d : [q |-> Strip(d.q), r |-> d.r])

Zeros(n) == [i \in 1..n |-> 0]

\* a * 2^t
BShl(a, t) ==
    With2(a, t, LAMBDA x, n :
        IF x = <<>> THEN <<>>
        ELSE Zeros(n \div LimbBits) \o BMulSmall(x, 2^(n % LimbBits)))

\* floor(a / 2^t)
BShr(a, t) ==
    With2(a, t, LAMBDA x, n :
        IF n \div LimbBits >= Len(x) THEN <<>>
        ELSE BDivSmall(SubSeq(x, (n \div LimbBits) + 1, Len(x)), 2^(n % LimbBits)).q)

RECURSIVE BitLenSmall(_)
BitLenSmall(x) == IF x = 0 THEN 0 ELSE 1 + BitLenSmall(x \div 2)

BitLen(a) ==
    IF a = <<>> THEN 0 ELSE LimbBits * (Len(a) - 1) + BitLenSmall(a[Len(a)])

BOdd(a) == a # <<>> /\ a[1] % 2 = 1

(***************************************************************************)
(* binary64.  A float is [s, m, e] with value s * m * 2^e, where m = 0     *)
(* (and e = 0, s = 1) or 2^52 <= m < 2^53; the representation is           *)
(* canonical, so two floats are == in Python iff their records are equal.  *)
(* The values of this module stay far from the overflow and subnormal      *)
(* ranges, which are not modelled.                                         *)
(***************************************************************************)
Precision == 53

FZero == [s |-> 1, m |-> <<>>, e |-> 0]

\* s * M * 2^E, rounded to nearest, ties to even
RoundBits(s, M, E) ==
    IF M = <<>> THEN FZero
    ELSE LET L == BitLen(M) IN
         IF L <= Precision
         THEN [s |-> s, m |-> BShl(M, Precision - L), e |-> E - (Precision - L)]
         ELSE LET r == L - Precision IN
              With(BShr(M, r), LAMBDA q :
                  LET rem  == BSub(M, BShl(q, r))
                      half == BShl(<<1>>, r - 1)
                      c    == BCmp(rem, half)
                      up   == c = 1 \/ (c = 0 /\ BOdd(q))
                  IN  With(IF up THEN BAdd(q, <<1>>) ELSE q, LAMBDA q2 :
                          IF BitLen(q2) > Precision
                          THEN [s |-> s, m |-> BShr(q2, 1), e |-> E + r + 1]
                          ELSE [s |-> s, m |-> q2, e |-> E + r]))

\* the float nearest the dyadic number d = [s, m, e]
Round(d) == With(d, LAMBDA v : RoundBits(v.s, v.m, v.e))

\* float(i) of a Python int, |i| < 2^31
FromInt(i) ==
    Round([s |-> IF i < 0 THEN -1 ELSE 1, m |-> FromNat(IF i < 0 THEN -i ELSE i), e |-> 0])

Min(x, y) == IF x < y THEN x ELSE y

\* The exact sum of two dyadic numbers [s, m, e] (no rounding; m need not be
\* a 53-bit significand).
DAdd(a0, b0) ==
    With2(a0, b0, LAMBDA a, b :
        IF a.m = <<>> THEN b
        ELSE IF b.m = <<>> THEN a
        ELSE LET E == Min(a.e, b.e) IN
             With2(BShl(a.m, a.e - E), BShl(b.m, b.e - E), LAMBDA A, B :
                 LET c == BCmp(A, B)
                 IN  IF a.s = b.s THEN [s |-> a.s, m |-> BAdd(A, B), e |-> E]
                     ELSE IF c = 0 THEN FZero
                     ELSE IF c = 1 THEN [s |-> a.s, m |-> BSub(A, B), e |-> E]
                     ELSE [s |-> b.s, m |-> BSub(B, A), e |-> E]))

\* a + b
FAdd(a, b) == Round(DAdd(a, b))

FNeg(a) == With(a, LAMBDA x : IF x.m = <<>> THEN x ELSE [x EXCEPT !.s = -x.s])

\* a - b
FSub(a, b) == FAdd(a, FNeg(b))

\* a * b
FMul(a, b) ==
    With2(a, b, LAMBDA x, y :
        IF x.m = <<>> \/ y.m = <<>> THEN FZero
        ELSE Round([s |-> x.s * y.s, m |-> BMul(x.m, y.m), e |-> x.e + y.e]))

\* a / float(k), for an int 0 < k < Base: the quotient is carried 2*LimbBits
\* bits past the significand and the remainder kept as a sticky bit, so the
\* rounding is that of the exact quotient.
FDivInt(a, k) ==
    With(a, LAMBDA x :
        IF x.m = <<>> THEN FZero
        ELSE With(BDivSmall(BShl(x.m, 2 * LimbBits), k), LAMBDA d :
                 Round([s |-> x.s,
                        m |-> BAdd(BMulSmall(d.q, 2), IF d.r = 0 THEN <<>> ELSE <<1>>),
                        e |-> x.e - 2 * LimbBits - 1])))

\* |a| < |b| for two nonzero floats: significands are normalised, so the
\* order is that of the exponents and then of the significands.
MagLess(a, b) == a.e < b.e \/ (a.e = b.e /\ BCmp(a.m, b.m) = -1)

\* a < b
FLess(a0, b0) ==
    With2(a0, b0, LAMBDA a, b :
        IF a.m = <<>> THEN b.m # <<>> /\ b.s = 1
        ELSE IF b.m = <<>> THEN a.s = -1
        ELSE IF a.s # b.s THEN a.s = -1
        ELSE IF a.s = 1 THEN MagLess(a, b) ELSE MagLess(b, a))

\* a <= b
FLeq(a, b) == With2(a, b, LAMBDA x, y : x = y \/ FLess(x, y))

\* The float a decimal literal p/q denotes (Python rounds literals correctly,
\* as the division of two exactly representable integers does).
Lit(p, q) == FDivInt(FromInt(p), q)

\* The largest float below a positive float.
FPred(a) ==
    IF a.m = BShl(<<1>>, Precision - 1)
    THEN [s |-> a.s, m |-> BSub(BShl(<<1>>, Precision), <<1>>), e |-> a.e - 1]
    ELSE [a EXCEPT !.m = BSub(a.m, <<1>>)]

\* |d| <= 2^t for a dyadic number d
DWithinPow2(d, t) ==
    d.m = <<>> \/
    LET E == Min(d.e, t) IN BCmp(BShl(d.m, d.e - E), BShl(<<1>>, t - E)) # 1

(***************************************************************************)
(* numpy, as far as the module body uses it.  A call returns [err, val]:   *)
(* err is the name of the exception raised, or "" with the array in val.   *)
(***************************************************************************)
Ok(v) == [err |-> "", val |-> v]
Raise(e) == [err |-> e, val |-> <<>>]

\* The array <<F(lo), ..., F(hi)>>, built by halves.
RECURSIVE Tabulate(_, _, _)
Tabulate(F(_), lo, hi) ==
    IF lo > hi THEN <<>>
    ELSE IF lo = hi THEN <<F(lo)>>
    ELSE LET mid == (lo + hi) \div 2
         IN  Tabulate(F, lo, mid) \o Tabulate(F, mid + 1, hi)

\* np.arange(0, num) as float64
arange(num) == Tabulate(LAMBDA i : FromInt(i - 1), 1, num)

\* linspace with endpoint=False: num steps instead of num - 1, and the last
\* sample left as computed.
linspace_open(start, stop, num) ==
    IF num < 0 THEN Raise("ValueError")
    ELSE With2(FSub(stop, start), arange(num), LAMBDA delta, y :
         With(IF num > 0 THEN FDivInt(delta, num) ELSE "nan", LAMBDA step :
         Ok(Tabulate(LAMBDA i : FAdd(FMul(y[i], step), start), 1, num))))

\* linspace without the final "y[-1] = stop"
linspace_unpinned(start, stop, num) ==
    IF num < 0 THEN Raise("ValueError")
    ELSE LET div == num - 1 IN
         With2(FSub(stop, start), arange(num), LAMBDA delta, y :
         With(IF div > 0 THEN FDivInt(delta, div) ELSE "nan", LAMBDA step :
         Ok(Tabulate(LAMBDA i : FAdd(FMul(y[i], IF div > 0 THEN step ELSE delta), start),
                     1, num))))

\* np.linspace(start, stop, num) with endpoint=True: the samples are
\* i * step + start with step = (stop - start) / (num - 1), each operation
\* rounded, and the last sample is then overwritten with stop.
linspace(start, stop, num) ==
    IF num < 0 THEN Raise("ValueError")
    ELSE LET div == num - 1 IN
         With2(FSub(stop, start), arange(num), LAMBDA delta, y :
         With(IF div > 0 THEN FDivInt(delta, div) ELSE "nan", LAMBDA step :
         With(IF div > 0
              THEN IF step = FZero
                   THEN Tabulate(LAMBDA i : FMul(FDivInt(y[i], div), delta), 1, num)
                   ELSE Tabulate(LAMBDA i : FMul(y[i], step), 1, num)
              ELSE Tabulate(LAMBDA i : FMul(y[i], delta), 1, num), LAMBDA ys :
         With(Tabulate(LAMBDA i : FAdd(ys[i], start), 1, num), LAMBDA sh :
         Ok(IF num > 1 THEN [sh EXCEPT ![num] = stop] ELSE sh)))))

\* a[1:] and a[:-1]
SliceFrom1(a) == SubSeq(a, 2, Len(a))
SliceToLast(a) == SubSeq(a, 1, Len(a) - 1)

\* (hi + lo) / 2. on two arrays of one shape
MeanOf(hi, lo) ==
    With2(hi, lo, LAMBDA h, l : Tabulate(LAMBDA i : FDivInt(FAdd(h[i], l[i]), 2), 1, Len(h)))

(***************************************************************************)
(* np.geomspace.  Its arguments here are the positive decimal literals     *)
(* d * 10^k of lines 16-17, written [d, k].  np.log10 and np.power are     *)
(* library functions whose last bit the model does not compute: log10 of   *)
(* the four literals is tabulated, and the float np.power(10., y) is kept  *)
(* as [lg |-> y], the exponent it was raised from.  An endpoint, which is  *)
(* overwritten with the literal itself, is kept as the log10 of that       *)
(* literal.  10^y is increasing in y and positive, so the order of two     *)
(* elements is the order of their lg fields.                               *)
(***************************************************************************)
Dec(d, k) == [d |-> d, k |-> k]

log10(x) ==
    CASE x = Dec(1, -5) -> FromInt(-5)
      [] x = Dec(1, 2)  -> FromInt(2)
      [] x = Dec(1, 17) -> FromInt(17)
      \* 0x1.49a209a84fbd0p+3 = 10.301029995663981
      [] x = Dec(2, 10) -> [s |-> 1, m |-> <<31696, 13577, 26754, 164>>, e |-> -49]

Pow10(y) == [lg |-> y]

\* np.logspace(start, stop, num, base=10.0)
logspace(start, stop, num) ==
    With(linspace(start, stop, num), LAMBDA y :
        IF y.err # "" THEN y ELSE Ok(Tabulate(LAMBDA i : Pow10(y.val[i]), 1, num)))

geomspace(start, stop, num) ==
    IF start.d = 0 \/ stop.d = 0 THEN Raise("ValueError")
    ELSE With2(log10(start), log10(stop), LAMBDA log_start, log_stop :
         With(logspace(log_start, log_stop, num), LAMBDA result :
             IF result.err # "" THEN result
             ELSE With(IF num > 0
                       THEN [result.val EXCEPT ![1] = Pow10(log_start)]
                       ELSE result.val, LAMBDA r0 :
                  Ok(IF num > 1
                     THEN [r0 EXCEPT ![num] = Pow10(log_stop)]
                     ELSE r0))))

(***************************************************************************)
(* The module body, lines 7-45.                                            *)
(***************************************************************************)
ksz_lmin == 1500
ksz_lmax == 8000
nkbins == 100

\* the edges with "nkbins" for "nkbins+1"
kbin_edges_short(n) == linspace(FZero, Lit(3, 10), n)

kbin_edges(n) == linspace(FZero, Lit(3, 10), n + 1)

\* the centers taken to be the lower edges
kbin_centers_lower(edges) == SliceToLast(edges)

kbin_centers(edges) == MeanOf(SliceFrom1(edges), SliceToLast(edges))

hmodel_ks == geomspace(Dec(1, -5), Dec(1, 2), 1000).val
\* the mass grid with its bounds exchanged
hmodel_ms_swapped == geomspace(Dec(1, 17), Dec(2, 10), 40).val

hmodel_ms == geomspace(Dec(2, 10), Dec(1, 17), 40).val
hmodel_minz == Lit(43, 100)
hmodel_maxz == Lit(7, 10)
hmodel_zeff == Lit(55, 100)
hmodel_ngal == Lit(1, 10000)

galmask_sky_percentage == 70
galmask_apodization == 0

act_dr == 5
\* the mapping with a third frequency
act_rms_threshold_220 == [freq \in {90, 150, 220} |-> FromInt(70)]

act_rms_threshold == [freq \in {90, 150} |-> FromInt(70)]

sdss_survey == "CMASS_North"
sdss_rpad == 500
sdss_pixsize == 10
\* the SDSS lower redshift edited without the halo-model one
sdss_zmin_edited == Lit(45, 100)

sdss_zmin == Lit(43, 100)
sdss_zmax == Lit(7, 10)
sdss_zeff == Lit(57, 100)
sdss_mock_type == "qpm"
sdss_nmocks == 1000

surr_bg == Lit(238, 100)
surr_bv == Lit(3, 10)
surr_fnl == 250
num_surrogates == 1000

\* ns with the bindings of the record b added or replaced
Bind(ns, b) ==
    With2(ns, b, LAMBDA old, new :
        [nm \in DOMAIN old \cup DOMAIN new |->
            IF nm \in DOMAIN new THEN new[nm] ELSE old[nm]])

\* The statements of the body with line 9 reading "nkbins = n": every
\* statement binds its name to a value computed from the literals and from
\* names bound earlier in the same execution.  np.linspace raising (line 10)
\* ends the execution with lines 7-9 bound.
Statements(n) ==
    LET top == [ksz_lmin |-> ksz_lmin, ksz_lmax |-> ksz_lmax, nkbins |-> n] IN
    With(kbin_edges(n), LAMBDA edges :
        IF edges.err # "" THEN [err |-> edges.err, bound |-> top]
        ELSE [err   |-> "",
              bound |-> Bind(top,
                  [kbin_edges             |-> edges.val,
                   kbin_centers           |-> kbin_centers(edges.val),
                   hmodel_ks              |-> hmodel_ks,
                   hmodel_ms              |-> hmodel_ms,
                   hmodel_minz            |-> hmodel_minz,
                   hmodel_maxz            |-> hmodel_maxz,
                   hmodel_zeff            |-> hmodel_zeff,
                   hmodel_ngal            |-> hmodel_ngal,
                   galmask_sky_percentage |-> galmask_sky_percentage,
                   galmask_apodization    |-> galmask_apodization,
                   act_dr                 |-> act_dr,
                   act_rms_threshold      |-> act_rms_threshold,
                   sdss_survey            |-> sdss_survey,
                   sdss_rpad              |-> sdss_rpad,
                   sdss_pixsize           |-> sdss_pixsize,
                   sdss_zmin              |-> sdss_zmin,
                   sdss_zmax              |-> sdss_zmax,
                   sdss_zeff              |-> sdss_zeff,
                   sdss_mock_type         |-> sdss_mock_type,
                   sdss_nmocks            |-> sdss_nmocks,
                   surr_bg                |-> surr_bg,
                   surr_bv                |-> surr_bv,
                   surr_fnl               |-> surr_fnl,
                   num_surrogates         |-> num_surrogates])])

\* An execution that appends the new edges to an array the namespace
\* already holds instead of rebinding the name.
ModuleBodyAppend(ns0, n) ==
    With2(ns0, Statements(n), LAMBDA old, b :
        [err |-> b.err,
         ns  |-> Bind(old,
                      IF "kbin_edges" \in DOMAIN old \cap DOMAIN b.bound
                      THEN [b.bound EXCEPT !.kbin_edges = old.kbin_edges \o @]
                      ELSE b.bound)])

\* Executing the body in the namespace ns0 (empty at the import, the
\* module's own at a reload): an assignment binds or rebinds its name.
ModuleBody(ns0, n) ==
    With(Statements(n), LAMBDA b : [err |-> b.err, ns |-> Bind(ns0, b.bound)])

\* module.name: the value bound to the name, or AttributeError
GetAttr(ns, nm) ==
    IF nm \in DOMAIN ns THEN [err |-> "", result |-> ns[nm]]
    ELSE [err |-> "AttributeError", result |-> "none"]

\* d[k] on a collections.defaultdict(float): a missing key is inserted
GetItemDefault(d, k) ==
    IF k \in DOMAIN d THEN [err |-> "", result |-> d[k], dict |-> d]
    ELSE [err |-> "", result |-> FZero,
          dict |-> [x \in DOMAIN d \cup {k} |-> IF x = k THEN FZero ELSE d[x]]]

\* d[k] on a dict: the value, or KeyError; the dict is returned as the
\* lookup leaves it.
GetItem(d, k) ==
    IF k \in DOMAIN d THEN [err |-> "", result |-> d[k], dict |-> d]
    ELSE [err |-> "KeyError", result |-> "none", dict |-> d]

(***************************************************************************)
(* The state machine: the module is imported (Load), may be re-executed    *)
(* (Reload), and its consumers read names and subscript the dict.          *)
(***************************************************************************)
MaxBins == 40
MaxNeg == 2
MaxLoads == 2
NumConsumers == 2

NkbinsChoices == ((0 - MaxNeg)..MaxBins) \cup {nkbins}
Consumers == 1..NumConsumers
Freqs == {90, 100, 150, 220}
NameChoices == DOMAIN ModuleBody(<<>>, nkbins).ns \cup {"nkbin_edges"}

VARIABLES
    config,     \* the bin count line 9 assigns
    phase,      \* "unloaded", "loaded" or "failed"
    error,      \* the exception that ended the import, or ""
    ns,         \* the module's namespace: name -> value
    loads,      \* how many times the body has been executed
    first,      \* the namespace as the first execution left it
    readers,    \* the consumers that have read so far
    lastRead    \* the last read: what was read and what it returned

vars == <<config, phase, error, ns, loads, first, readers, lastRead>>

NoRead == [what |-> <<>>, err |-> "", result |-> "none"]

Unloaded ==
    /\ phase = "unloaded"
    /\ error = ""
    /\ ns = <<>>
    /\ loads = 0
    /\ first = <<>>
    /\ readers = {}
    /\ lastRead = NoRead

\* the file as it stands
Init == config = nkbins /\ Unloaded

\* the file with line 9 edited to another bin count
InitConfigured == config \in NkbinsChoices /\ Unloaded

\* import global_params
Load ==
    /\ phase = "unloaded"
    /\ \E r \in {ModuleBody(ns, config)} :
       /\ ns' = r.ns
       /\ first' = r.ns
       /\ error' = r.err
       /\ phase' = IF r.err = "" THEN "loaded" ELSE "failed"
    /\ loads' = loads + 1
    /\ UNCHANGED <<config, readers, lastRead>>

\* importlib.reload(global_params): the body runs again in the same namespace
Reload ==
    /\ phase = "loaded"
    /\ loads < MaxLoads
    /\ \E r \in {ModuleBody(ns, config)} :
       /\ ns' = r.ns
       /\ error' = r.err
       /\ phase' = IF r.err = "" THEN "loaded" ELSE "failed"
    /\ loads' = loads + 1
    /\ UNCHANGED <<config, first, readers, lastRead>>

\* consumer c evaluates global_params.<nm>
Read(c, nm) ==
    /\ phase = "loaded"
    /\ \E r \in {GetAttr(ns, nm)} :
       lastRead' = [what |-> <<"attr", nm>>, err |-> r.err, result |-> r.result]
    /\ readers' = readers \cup {c}
    /\ UNCHANGED <<config, phase, error, ns, loads, first>>

\* consumer c evaluates global_params.act_rms_threshold[k]
Lookup(c, k) ==
    /\ phase = "loaded"
    /\ \E r \in {GetItem(ns.act_rms_threshold, k)} :
       /\ lastRead' = [what |-> <<"item", k>>, err |-> r.err, result |-> r.result]
       /\ ns' = [ns EXCEPT !.act_rms_threshold = r.dict]
    /\ readers' = readers \cup {c}
    /\ UNCHANGED <<config, phase, error, loads, first>>

Next ==
    \/ Load
    \/ Reload
    \/ \E c \in Consumers, nm \in NameChoices : Read(c, nm)
    \/ \E c \in Consumers, k \in Freqs : Lookup(c, k)

NextLoad ==
    \/ Load
    \/ Reload

\* The module as it stands, with its consumers.
Spec == Init /\ [][Next]_vars

\* The module under every configured bin count, loaded and reloaded.
SpecConfigured == InitConfigured /\ [][NextLoad]_vars

(***************************************************************************)
(* Properties.                                                             *)
(***************************************************************************)
Loaded == phase = "loaded"

\* the float 0.3 / n, the step np.linspace computes for n bins
Step(n) == FDivInt(Lit(3, 10), n)

\* (a[i+1] - a[i]) - step, exactly
SpacingError(a, i, step) == DAdd(DAdd(a[i + 1], FNeg(a[i])), FNeg(step))

\* C1: for every configured bin count n >= 1 a load produces exactly n+1
\* bin edges and n bin centers; under the default nkbins = 100 that is 101
\* edges and 100 centers.
C1_EdgeAndCenterCounts ==
    (Loaded /\ config >= 1) =>
        /\ Len(ns.kbin_edges) = config + 1
        /\ Len(ns.kbin_centers) = config
        /\ config = nkbins => Len(ns.kbin_edges) = 101 /\ Len(ns.kbin_centers) = 100

C1_Witness ==
    /\ Loaded
    /\ config = nkbins
    /\ Len(ns.kbin_edges) = 101
    /\ Len(ns.kbin_centers) = 100

\* C2: after a load every center is the midpoint of its pair of consecutive
\* edges: kbin_centers[i] = (kbin_edges[i] + kbin_edges[i+1]) / 2 in float
\* arithmetic, for each of the nkbins bins.
C2_CentersAreMidpoints ==
    Loaded =>
        \A i \in 1..config :
            ns.kbin_centers[i] = FDivInt(FAdd(ns.kbin_edges[i], ns.kbin_edges[i + 1]), 2)

C2_Witness ==
    /\ Loaded
    /\ config = 4
    /\ Len(ns.kbin_centers) = 4
    /\ ns.kbin_centers[1] = FDivInt(ns.kbin_edges[2], 2)

\* C3 as stated: the edges are strictly increasing, start at exactly 0.0, end
\* at exactly 0.3, and every two consecutive edges differ by exactly 0.3/n.
C3_UniformSpacingExact ==
    (Loaded /\ config >= 1) =>
        /\ ns.kbin_edges[1] = FZero
        /\ ns.kbin_edges[config + 1] = Lit(3, 10)
        /\ \A i \in 1..config :
               /\ FLess(ns.kbin_edges[i], ns.kbin_edges[i + 1])
               /\ SpacingError(ns.kbin_edges, i, Step(config)).m = <<>>

\* C3 amended: the edges are strictly increasing, start at exactly 0.0 and
\* end at exactly 0.3; consecutive edges differ by 0.3/n up to rounding: the
\* difference is within 2^-53 of the float 0.3/n.
C3_EdgesIncreasingSpacingRounded ==
    (Loaded /\ config >= 1) =>
        /\ ns.kbin_edges[1] = FZero
        /\ ns.kbin_edges[config + 1] = Lit(3, 10)
        /\ \A i \in 1..config :
               /\ FLess(ns.kbin_edges[i], ns.kbin_edges[i + 1])
               /\ DWithinPow2(SpacingError(ns.kbin_edges, i, Step(config)), -53)

C3_Witness ==
    /\ Loaded
    /\ config = 3
    /\ ns.kbin_edges[4] = Lit(3, 10)
    /\ SpacingError(ns.kbin_edges, 3, Step(3)).m # <<>>

\* C4: act_rms_threshold maps exactly the frequencies 90 and 150, each to
\* 70.0, and subscripting it with any other key fails (KeyError, the
\* registry's unknown-parameter failure) instead of returning a value.
C4_ThresholdMapping ==
    Loaded =>
        /\ DOMAIN ns.act_rms_threshold = {90, 150}
        /\ \A f \in {90, 150} : ns.act_rms_threshold[f] = FromInt(70)
        /\ (lastRead.what # <<>> /\ lastRead.what[1] = "item") =>
               IF lastRead.what[2] \in {90, 150}
               THEN lastRead.err = "" /\ lastRead.result = FromInt(70)
               ELSE lastRead.err = "KeyError"

C4_Witness ==
    /\ Loaded
    /\ lastRead.what = <<"item", 220>>
    /\ lastRead.err = "KeyError"

\* what the read r returns when it is made of the namespace reg
ReadReturns(r, reg) ==
    r.err = "" =>
        r.result = IF r.what[1] = "attr" THEN reg[r.what[2]]
                   ELSE reg.act_rms_threshold[r.what[2]]

C6_MalformedNeverLoads == config <= 0 => ~Loaded

C8_FourBinsExactDecimals ==
    (Loaded /\ config = 4) =>
        /\ ns.kbin_edges = <<FZero, Lit(75, 1000), Lit(15, 100), Lit(225, 1000),
                             Lit(3, 10)>>
        /\ ns.kbin_centers = <<Lit(375, 10000), Lit(1125, 10000), Lit(1875, 10000),
                               Lit(2625, 10000)>>

\* C8 amended: with nkbins = 4 the edges are 0, 0.075, 0.15,
\* 0.22499999999999998, 0.3 and the centers 0.0375, 0.11249999999999999,
\* 0.1875, 0.26249999999999996: the fourth edge and the second and fourth
\* centers are the floats just below 0.225, 0.1125 and 0.2625.
C8_FourBinsRounded ==
    (Loaded /\ config = 4) =>
        /\ ns.kbin_edges = <<FZero, Lit(75, 1000), Lit(15, 100),
                             FPred(Lit(225, 1000)), Lit(3, 10)>>
        /\ ns.kbin_centers = <<Lit(375, 10000), FPred(Lit(1125, 10000)),
                               Lit(1875, 10000), FPred(Lit(2625, 10000))>>

C8_Witness ==
    /\ Loaded
    /\ config = 4
    /\ ns.kbin_edges[4] = FPred(Lit(225, 1000))

\* the common log10 step of a geometric grid: (log_stop - log_start) / (num - 1)
LogStep(g) == FDivInt(FSub(g[Len(g)].lg, g[1].lg), Len(g) - 1)

\* (log10 g[i+1] - log10 g[i]) - step, exactly
LogSpacingError(g, i, step) == DAdd(DAdd(g[i + 1].lg, FNeg(g[i].lg)), FNeg(step))

\* every element is below the next
GridIncreasing(g) == \A i \in 1..(Len(g) - 1) : FLess(g[i].lg, g[i + 1].lg)

\* every element is 10^y with -300 < y < 300: a positive, finite float
GridPositive(g) ==
    \A i \in 1..Len(g) : FLess(FromInt(-300), g[i].lg) /\ FLess(g[i].lg, FromInt(300))

\* consecutive elements are in one ratio: their log10 differ by exactly the
\* common step
GridRatioExact(g) ==
    With(LogStep(g), LAMBDA step :
        \A i \in 1..(Len(g) - 1) : LogSpacingError(g, i, step).m = <<>>)

\* consecutive elements are in one ratio up to rounding: their log10 differ
\* by the common step to within 2^-48
GridRatioRounded(g) ==
    With(LogStep(g), LAMBDA step :
        \A i \in 1..(Len(g) - 1) : DWithinPow2(LogSpacingError(g, i, step), -48))

GridEnds(g, num, start, stop) ==
    /\ Len(g) = num
    /\ g[1] = Pow10(log10(start))
    /\ g[num] = Pow10(log10(stop))

\* C9 as stated: a load leaves hmodel_ks (1000 points from 1e-5 to 100) and
\* hmodel_ms (40 points from 2e10 to 1e17) strictly increasing and strictly
\* positive, with one constant ratio between consecutive elements.
C9_GridsExactlyGeometric ==
    [][(loads' = loads + 1 /\ phase' = "loaded") =>
           /\ GridEnds(ns'.hmodel_ks, 1000, Dec(1, -5), Dec(1, 2))
           /\ GridEnds(ns'.hmodel_ms, 40, Dec(2, 10), Dec(1, 17))
           /\ GridIncreasing(ns'.hmodel_ks) /\ GridIncreasing(ns'.hmodel_ms)
           /\ GridPositive(ns'.hmodel_ks) /\ GridPositive(ns'.hmodel_ms)
           /\ GridRatioExact(ns'.hmodel_ks) /\ GridRatioExact(ns'.hmodel_ms)]_vars

\* C9 amended: a load leaves hmodel_ks (1000 points from 1e-5 to 100) and
\* hmodel_ms (40 points from 2e10 to 1e17) strictly increasing and strictly
\* positive; the ratio between consecutive elements is constant only up to
\* rounding (their log10 differ by the common step to within 2^-48).
C9_GridsIncreasingPositive ==
    [][(loads' = loads + 1 /\ phase' = "loaded") =>
           /\ GridEnds(ns'.hmodel_ks, 1000, Dec(1, -5), Dec(1, 2))
           /\ GridEnds(ns'.hmodel_ms, 40, Dec(2, 10), Dec(1, 17))
           /\ GridIncreasing(ns'.hmodel_ks) /\ GridIncreasing(ns'.hmodel_ms)
           /\ GridPositive(ns'.hmodel_ks) /\ GridPositive(ns'.hmodel_ms)
           /\ GridRatioRounded(ns'.hmodel_ks) /\ GridRatioRounded(ns'.hmodel_ms)]_vars

C9_Witness ==
    /\ Loaded
    /\ Len(ns.hmodel_ks) = 1000
    /\ Len(ns.hmodel_ms) = 40
    /\ FLess(ns.hmodel_ms[1].lg, ns.hmodel_ms[2].lg)

\* C10: in the loaded registry ksz_lmin < ksz_lmax, hmodel_minz <=
\* hmodel_zeff <= hmodel_maxz, sdss_zmin <= sdss_zeff <= sdss_zmax, and the
\* SDSS redshift range is the halo-model one.
C10_RangesConsistent ==
    Loaded =>
        /\ ns.ksz_lmin < ns.ksz_lmax
        /\ FLeq(ns.hmodel_minz, ns.hmodel_zeff) /\ FLeq(ns.hmodel_zeff, ns.hmodel_maxz)
        /\ FLeq(ns.sdss_zmin, ns.sdss_zeff) /\ FLeq(ns.sdss_zeff, ns.sdss_zmax)
        /\ ns.sdss_zmin = ns.hmodel_minz
        /\ ns.sdss_zmax = ns.hmodel_maxz

C10_Witness ==
    /\ Loaded
    /\ lastRead.what = <<"attr", "sdss_zmin">>
    /\ lastRead.result = ns.hmodel_minz
    /\ FLess(ns.sdss_zmin, ns.sdss_zeff)

====
